---- MODULE Spec2Model ----
(***************************************************************************)
(* The natural-language diagram-edit engine of ChatInterface.tsx, and the  *)
(* page around it: the dropped files, the XML editor, the chat transcript  *)
(* and the delayed replies.                                                *)
(*                                                                         *)
(* The document (xmlContent) is draw.io markup.  The engine edits it with  *)
(* regular expressions; the model keeps the document as what those regular *)
(* expressions see of the standard draw.io serialisation                   *)
(*                                                                         *)
(*   <mxGraphModel><root>                                                  *)
(*     <mxCell id="0"/>                                          (layer)   *)
(*     <mxCell id=I value=V style="..fillColor=F;.." vertex="1" parent="1">*)
(*       <mxGeometry x= y= width=W height=H as="geometry"/></mxCell>       *)
(*     <mxCell id=I value=V style=".." edge="1" parent="1" source=S        *)
(*       target=T><mxGeometry relative="1" as="geometry"/></mxCell>        *)
(*   </root></mxGraphModel>                                                *)
(*                                                                         *)
(* that is: a sequence of cells in text order, each with the attribute     *)
(* values the patterns read or rewrite, plus whether the opening and the   *)
(* closing mxGraphModel tag are present.  A text (an attribute value, a    *)
(* word of an instruction) is the sequence of its characters; Str writes   *)
(* one down.                                                               *)
(***************************************************************************)
EXTENDS Integers, Sequences, FiniteSets, TLC

VARIABLES
    xml,            \* xmlContent: the document text
    last,           \* the last call made and what it returned
    prev,           \* which transform call was made before that one
    steps,          \* how many calls or user events there have been
    uploadedFiles,  \* the files dropped so far
    reads,          \* the FileReader reads that have not ended, each with the drop that began it
    messages,       \* the chat transcript
    inputValue,     \* the text in the input field
    isLoading,      \* the loading flag
    timers,         \* the setTimeout callbacks that have not run
    toast           \* the notice shown last

\* the state of the page around the document text
session == <<uploadedFiles, reads, messages, inputValue, isLoading, timers, toast>>

vars == <<xml, last, prev, steps, session>>

(***************************************************************************)
(* Strings (String.prototype and the regular-expression character classes) *)
(***************************************************************************)
RECURSIVE StrFrom(_, _)
StrFrom(literal, i) == IF i > Len(literal) THEN <<>> ELSE <<SubSeq(literal, i, i)>> \o StrFrom(literal, i + 1)

Str(literal) == StrFrom(literal, 1)

lowerAlpha == Str("abcdefghijklmnopqrstuvwxyz")

upperAlpha == Str("ABCDEFGHIJKLMNOPQRSTUVWXYZ")

digitChars == Str("0123456789")

Chars(s) == {s[i] : i \in 1..Len(s)}

lowerOf == [c \in Chars(upperAlpha) |-> lowerAlpha[CHOOSE i \in 1..Len(upperAlpha) : upperAlpha[i] = c]]

upperOf == [c \in Chars(lowerAlpha) |-> upperAlpha[CHOOSE i \in 1..Len(lowerAlpha) : lowerAlpha[i] = c]]

digitOf == [c \in Chars(digitChars) |-> (CHOOSE i \in 1..Len(digitChars) : digitChars[i] = c) - 1]

LowerChar(c) == IF c \in DOMAIN lowerOf THEN lowerOf[c] ELSE c

UpperChar(c) == IF c \in DOMAIN upperOf THEN upperOf[c] ELSE c

RECURSIVE toLowerCase(_)
toLowerCase(s) == IF s = <<>> THEN <<>> ELSE <<LowerChar(Head(s))>> \o toLowerCase(Tail(s))

RECURSIVE toUpperCase(_)
toUpperCase(s) == IF s = <<>> THEN <<>> ELSE <<UpperChar(Head(s))>> \o toUpperCase(Tail(s))

\* String.prototype.includes
includes(s, t) == \E i \in 1..(Len(s) - Len(t) + 1) : SubSeq(s, i, i + Len(t) - 1) = t

\* a pattern compiled with the i flag, searched inside one attribute value
includesCI(s, t) == includes(toLowerCase(s), toLowerCase(t))

equalsCI(s, t) == toLowerCase(s) = toLowerCase(t)

endsWithCI(s, t) == Len(t) <= Len(s) /\ equalsCI(SubSeq(s, Len(s) - Len(t) + 1, Len(s)), t)

startsWithCI(s, t) == Len(t) <= Len(s) /\ equalsCI(SubSeq(s, 1, Len(t)), t)

wordChars == Chars(lowerAlpha) \cup Chars(upperAlpha) \cup Chars(digitChars) \cup {"_"}

\* the class \w
IsWordChar(c) == c \in wordChars

\* the class \d
IsDigit(c) == c \in DOMAIN digitOf

\* the whole of s matches \d+
IsDigits(s) == s # <<>> /\ \A i \in 1..Len(s) : IsDigit(s[i])

\* parseInt of a string that matches \d+
RECURSIVE parseInt(_)
parseInt(s) == IF s = <<>> THEN 0 ELSE 10 * parseInt(SubSeq(s, 1, Len(s) - 1)) + digitOf[s[Len(s)]]

\* the decimal text a template literal gives a non-negative integer
RECURSIVE numberToString(_)
numberToString(n) == IF n < 10 THEN <<digitChars[n + 1]>> ELSE numberToString(n \div 10) \o <<digitChars[(n % 10) + 1]>>

\* the longest prefix of s that matches \d*
RECURSIVE digitPrefix(_)
digitPrefix(s) == IF s # <<>> /\ IsDigit(Head(s)) THEN <<Head(s)>> \o digitPrefix(Tail(s)) ELSE <<>>

\* \bF\b with the i flag matches s at position i (F matches \w+)
IsWordAt(s, i, f) ==
    /\ i + Len(f) - 1 <= Len(s)
    /\ equalsCI(SubSeq(s, i, i + Len(f) - 1), f)
    /\ (i = 1 \/ ~IsWordChar(s[i - 1]))
    /\ (i + Len(f) - 1 = Len(s) \/ ~IsWordChar(s[i + Len(f)]))

\* xml.match(/\bF\b/gi).length, within one attribute value
countWord(s, f) == Cardinality({i \in 1..Len(s) : IsWordAt(s, i, f)})

\* xml.replace(/\bF\b/gi, t), within one attribute value
RECURSIVE replaceWordFrom(_, _, _, _)
replaceWordFrom(s, i, f, t) ==
    IF i > Len(s) THEN <<>>
    ELSE IF IsWordAt(s, i, f) THEN t \o replaceWordFrom(s, i + Len(f), f, t)
    ELSE <<s[i]>> \o replaceWordFrom(s, i + 1, f, t)

replaceWord(s, f, t) == replaceWordFrom(s, 1, f, t)

(***************************************************************************)
(* The document                                                            *)
(***************************************************************************)
Layer(id) == [kind |-> "layer", id |-> id, value |-> <<>>, hasFill |-> FALSE, fill |-> <<>>, w |-> <<>>, h |-> <<>>, source |-> <<>>, target |-> <<>>]

Vertex(id, value, fill, w, h) == [kind |-> "vertex", id |-> id, value |-> value, hasFill |-> TRUE, fill |-> fill, w |-> w, h |-> h, source |-> <<>>, target |-> <<>>]

PlainVertex(id, value, w, h) == [kind |-> "vertex", id |-> id, value |-> value, hasFill |-> FALSE, fill |-> <<>>, w |-> w, h |-> h, source |-> <<>>, target |-> <<>>]

Edge(id, value, source, target) == [kind |-> "edge", id |-> id, value |-> value, hasFill |-> FALSE, fill |-> <<>>, w |-> <<>>, h |-> <<>>, source |-> source, target |-> target]

Document(opening, closing, cells) == [opening |-> opening, closing |-> closing, cells |-> cells]

\* useState<string>("") of the document text
EmptyDocument == Document(FALSE, FALSE, <<>>)

\* the attribute values of a cell (the text between its quotes), in text order
CellFields(c) == <<c.id, c.value, c.fill, c.source, c.target, c.w, c.h>>

\* the words of the fixed markup around the attribute values of a cell
layerMarkup == {Str("mxCell"), Str("id")}

vertexMarkup == {Str("mxCell"), Str("id"), Str("value"), Str("style"), Str("vertex"), Str("1"), Str("parent"), Str("mxGeometry"), Str("x"), Str("y"), Str("width"), Str("height"), Str("as"), Str("geometry")}

edgeMarkup == {Str("mxCell"), Str("id"), Str("value"), Str("style"), Str("edge"), Str("1"), Str("parent"), Str("source"), Str("target"), Str("mxGeometry"), Str("relative"), Str("as"), Str("geometry")}

fillColorKey == Str("fillColor")

rootMarkup == {Str("mxGraphModel"), Str("root")}

CellMarkup(c) ==
    IF c.kind = "layer" THEN layerMarkup
    ELSE IF c.kind = "vertex" THEN vertexMarkup \cup (IF c.hasFill THEN {fillColorKey} ELSE {})
    ELSE edgeMarkup

\* connection.includes(name), name matching \w+: name lies in one run of word characters of the cell's text
cellIncludes(c, name) ==
    \/ \E k \in 1..Len(CellFields(c)) : includes(CellFields(c)[k], name)
    \/ \E m \in CellMarkup(c) : includes(m, name)

\* xml.toLowerCase().includes(word), word matching \w+
documentIncludesCI(doc, word) ==
    \/ \E n \in 1..Len(doc.cells) :
          \/ \E k \in 1..Len(CellFields(doc.cells[n])) : includes(toLowerCase(CellFields(doc.cells[n])[k]), word)
          \/ \E m \in CellMarkup(doc.cells[n]) : includes(toLowerCase(m), word)
    \/ (doc.opening \/ doc.closing) /\ \E m \in rootMarkup : includes(toLowerCase(m), word)

\* the same test without the i flag
labelMatchesExactCase(c, name) == c.kind # "layer" /\ includes(c.value, name)

\* <mxCell[^>]*value="[^"]*NAME[^"]*" with the i flag: the open tag of a cell whose label contains NAME
labelMatches(c, name) == c.kind # "layer" /\ includesCI(c.value, name)

Min(S) == CHOOSE n \in S : \A m \in S : n <= m

Max(S) == CHOOSE n \in S : \A m \in S : m <= n

(***************************************************************************)
(* Change records: the strings pushed on the change list, kept as the      *)
(* template that produced them and the values interpolated into it.        *)
(***************************************************************************)
Change(kind, count, a, b) == [kind |-> kind, count |-> count, a |-> a, b |-> b]

(***************************************************************************)
(* The transforms                                                          *)
(***************************************************************************)
\* removeComponent: every cell whose label contains the name goes, and so do
\* the cells with source or target equal to the id of the FIRST such cell
removeComponent(doc, componentName) ==
    LET matches == {n \in 1..Len(doc.cells) : labelMatches(doc.cells[n], componentName)} IN
    IF matches # {}
    THEN LET withoutMatches == SelectSeq(doc.cells, LAMBDA c : ~labelMatches(c, componentName))
             componentId == doc.cells[Min(matches)].id
             referencesId(c) == c.kind = "edge" /\ (equalsCI(c.source, componentId) \/ equalsCI(c.target, componentId))
             withoutConnections == SelectSeq(withoutMatches, LAMBDA c : ~referencesId(c))
         IN [success |-> TRUE, xml |-> [doc EXCEPT !.cells = withoutConnections]]
    ELSE [success |-> FALSE, xml |-> doc]

replaceInCell(c, from, to) ==
    [c EXCEPT !.id = replaceWord(c.id, from, to), !.value = replaceWord(c.value, from, to),
              !.fill = replaceWord(c.fill, from, to), !.source = replaceWord(c.source, from, to),
              !.target = replaceWord(c.target, from, to), !.w = replaceWord(c.w, from, to),
              !.h = replaceWord(c.h, from, to)]

RECURSIVE replaceInCells(_, _, _)
replaceInCells(cells, from, to) ==
    IF cells = <<>> THEN <<>> ELSE <<replaceInCell(Head(cells), from, to)>> \o replaceInCells(Tail(cells), from, to)

RECURSIVE countInFields(_, _)
countInFields(fields, from) == IF fields = <<>> THEN 0 ELSE countWord(Head(fields), from) + countInFields(Tail(fields), from)

RECURSIVE countInCells(_, _)
countInCells(cells, from) == IF cells = <<>> THEN 0 ELSE countInFields(CellFields(Head(cells)), from) + countInCells(Tail(cells), from)

\* variant of replaceComponent: the replacement is written as given, not upper-cased
replaceComponentAsGiven(doc, fromComponent, toComponent) ==
    LET count == countInCells(doc.cells, fromComponent) IN
    IF count > 0
    THEN [success |-> TRUE, xml |-> [doc EXCEPT !.cells = replaceInCells(doc.cells, fromComponent, toComponent)], count |-> count]
    ELSE [success |-> FALSE, xml |-> doc, count |-> 0]

\* replaceComponent: /\bFROM\b/gi over the whole text, every hit becomes TO upper-cased
replaceComponent(doc, fromComponent, toComponent) ==
    LET count == countInCells(doc.cells, fromComponent) IN
    IF count > 0
    THEN [success |-> TRUE,
          xml |-> [doc EXCEPT !.cells = replaceInCells(doc.cells, fromComponent, toUpperCase(toComponent))],
          count |-> count]
    ELSE [success |-> FALSE, xml |-> doc, count |-> 0]

\* variant of removeConnections: an edge goes when its text contains either name
removeConnectionsEither(doc, component1, component2) ==
    IF component1 # <<>> /\ component2 # <<>>
    THEN LET hit(c) == c.kind = "edge" /\ (cellIncludes(c, component1) \/ cellIncludes(c, component2))
             removedCount == Cardinality({n \in 1..Len(doc.cells) : hit(doc.cells[n])})
         IN [success |-> removedCount > 0,
             xml |-> [doc EXCEPT !.cells = SelectSeq(doc.cells, LAMBDA c : ~hit(c))],
             message |-> Change("RemovedConnectionsBetween", removedCount, toUpperCase(component1), toUpperCase(component2))]
    ELSE LET removedCount == Cardinality({n \in 1..Len(doc.cells) : doc.cells[n].kind = "edge"}) IN
         IF removedCount > 0
         THEN [success |-> TRUE,
               xml |-> [doc EXCEPT !.cells = SelectSeq(doc.cells, LAMBDA c : c.kind # "edge")],
               message |-> Change("RemovedArrows", removedCount, <<>>, <<>>)]
         ELSE [success |-> FALSE, xml |-> doc, message |-> Change("NoConnectionsFound", 0, <<>>, <<>>)]

\* the all-arrows branch with a replace that stops after the first arrow
removeConnectionsOnce(doc, component1, component2) ==
    LET arrows == {n \in 1..Len(doc.cells) : doc.cells[n].kind = "edge"} IN
    IF arrows # {}
    THEN [success |-> TRUE,
          xml |-> [doc EXCEPT !.cells = SubSeq(doc.cells, 1, Min(arrows) - 1) \o SubSeq(doc.cells, Min(arrows) + 1, Len(doc.cells))],
          message |-> Change("RemovedArrows", Cardinality(arrows), <<>>, <<>>)]
    ELSE [success |-> FALSE, xml |-> doc, message |-> Change("NoConnectionsFound", 0, <<>>, <<>>)]

\* removeConnections: an absent capture (undefined) is the empty string
removeConnections(doc, component1, component2) ==
    IF component1 # <<>> /\ component2 # <<>>
    THEN LET hit(c) == c.kind = "edge" /\ cellIncludes(c, component1) /\ cellIncludes(c, component2)
             removedCount == Cardinality({n \in 1..Len(doc.cells) : hit(doc.cells[n])})
         IN [success |-> removedCount > 0,
             xml |-> [doc EXCEPT !.cells = SelectSeq(doc.cells, LAMBDA c : ~hit(c))],
             message |-> Change("RemovedConnectionsBetween", removedCount, toUpperCase(component1), toUpperCase(component2))]
    ELSE LET removedCount == Cardinality({n \in 1..Len(doc.cells) : doc.cells[n].kind = "edge"}) IN
         IF removedCount > 0
         THEN [success |-> TRUE,
               xml |-> [doc EXCEPT !.cells = SelectSeq(doc.cells, LAMBDA c : c.kind # "edge")],
               message |-> Change("RemovedArrows", removedCount, <<>>, <<>>)]
         ELSE [success |-> FALSE, xml |-> doc, message |-> Change("NoConnectionsFound", 0, <<>>, <<>>)]

\* what Math.max(...[]) + 1 becomes in the id attribute
minusInfinity == Str("-Infinity")

defaultFill == Str("#dae8fc")

defaultWidth == Str("120")

defaultHeight == Str("60")

\* addComponent: the replace inserts before the closing tag, or does nothing when there is none
addComponent(doc, componentName) ==
    LET cellMatches == {n \in 1..Len(doc.cells) : IsDigits(doc.cells[n].id)}
        newId == IF cellMatches = {} THEN minusInfinity
                 ELSE numberToString(Max({parseInt(doc.cells[n].id) : n \in cellMatches}) + 1)
        newComponent == Vertex(newId, toUpperCase(componentName), defaultFill, defaultWidth, defaultHeight)
    IN [success |-> TRUE,
        xml |-> IF doc.closing THEN [doc EXCEPT !.cells = Append(doc.cells, newComponent)] ELSE doc]

\* userInput.toLowerCase().includes(keyword), keyword without white space
inputIncludes(userInput, keyword) == \E n \in 1..Len(userInput) : includes(toLowerCase(userInput[n]), keyword)

\* sizeRegex with the g flag, from cell i on: the open tag of a cell whose label
\* contains the component, then lazily the first mxGeometry that has width and
\* height (a vertex, this cell or a later one), up to that cell's closing tag
RECURSIVE resizeFrom(_, _, _, _)
resizeFrom(cells, i, component, value) ==
    IF i > Len(cells) THEN cells
    ELSE IF labelMatches(cells[i], component)
    THEN LET sized == {j \in i..Len(cells) : cells[j].kind = "vertex"} IN
         IF sized = {} THEN cells
         ELSE resizeFrom([cells EXCEPT ![Min(sized)].w = value, ![Min(sized)].h = value], Min(sized) + 1, component, value)
    ELSE resizeFrom(cells, i + 1, component, value)

colorMap == (Str("red") :> Str("#ff0000")) @@ (Str("blue") :> Str("#0000ff")) @@ (Str("green") :> Str("#00ff00")) @@ (Str("yellow") :> Str("#ffff00"))
            @@ (Str("orange") :> Str("#ffa500")) @@ (Str("purple") :> Str("#800080")) @@ (Str("pink") :> Str("#ffc0cb")) @@ (Str("gray") :> Str("#808080"))

\* the key every object literal inherits, and what a template literal makes of its value
inheritedKey == Str("constructor")

inheritedValue == Str("function Object() { [native code] }")

\* colorMap[value.toLowerCase()] || value; colorMap is an object literal, so the
\* lower-case keys it inherits from Object.prototype are found by the lookup too
colorCodeOf(value) ==
    IF toLowerCase(value) \in DOMAIN colorMap THEN colorMap[toLowerCase(value)]
    ELSE IF toLowerCase(value) = inheritedKey THEN inheritedValue
    ELSE value

\* colorRegex: within one open tag, the label, then the style's fillColor= up to the next ;
recolorCell(c, component, colorCode) ==
    IF labelMatches(c, component) /\ c.hasFill THEN [c EXCEPT !.fill = colorCode] ELSE c

RECURSIVE recolorCells(_, _, _)
recolorCells(cells, component, colorCode) ==
    IF cells = <<>> THEN <<>> ELSE <<recolorCell(Head(cells), component, colorCode)>> \o recolorCells(Tail(cells), component, colorCode)

modifyComponentProperty(doc, component, value, userInput) ==
    IF inputIncludes(userInput, Str("size")) \/ inputIncludes(userInput, Str("width")) \/ inputIncludes(userInput, Str("height"))
    THEN [success |-> TRUE,
          xml |-> [doc EXCEPT !.cells = resizeFrom(doc.cells, 1, component, value)],
          message |-> Change("ChangedSize", 0, toUpperCase(component), value)]
    ELSE IF inputIncludes(userInput, Str("color")) \/ inputIncludes(userInput, Str("colour"))
    THEN [success |-> TRUE,
          xml |-> [doc EXCEPT !.cells = recolorCells(doc.cells, component, colorCodeOf(value))],
          message |-> Change("ChangedColor", 0, toUpperCase(component), value)]
    ELSE [success |-> FALSE, xml |-> doc, message |-> Change("PropertyModificationFailed", 0, <<>>, <<>>)]

stopWords == {Str("the"), Str("and"), Str("or"), Str("to"), Str("from"), Str("with"), Str("by"), Str("as"), Str("into"), Str("remove"), Str("add"), Str("change"), Str("make")}

BiggerSize == Str("150")

\* the instruction text handleContextualChanges passes on for "bigger" and "larger"
makeBigger == <<Str("make"), Str("bigger")>>

\* the instruction text handleContextualChanges passes on for "smaller"
makeSmaller == <<Str("make"), Str("smaller")>>

SmallerSize == Str("80")

\* if (result.success) { modifiedXml = result.xml; changes.push(...) }
contextualResult(acc, result, change) ==
    IF result.success THEN [xml |-> result.xml, changes |-> Append(acc.changes, change)] ELSE acc

biggerStep(acc, component, userInput) ==
    IF inputIncludes(userInput, Str("bigger")) \/ inputIncludes(userInput, Str("larger"))
    THEN contextualResult(acc, modifyComponentProperty(acc.xml, component, BiggerSize, makeBigger), Change("MadeLarger", 0, toUpperCase(component), <<>>))
    ELSE acc

smallerStep(acc, component, userInput) ==
    IF inputIncludes(userInput, Str("smaller"))
    THEN contextualResult(acc, modifyComponentProperty(acc.xml, component, SmallerSize, makeSmaller), Change("MadeSmaller", 0, toUpperCase(component), <<>>))
    ELSE acc

\* the body of the for loop of handleContextualChanges for one word
contextualStep(doc, acc, component, userInput) ==
    IF documentIncludesCI(doc, component)
    THEN smallerStep(biggerStep(acc, component, userInput), component, userInput)
    ELSE acc

RECURSIVE contextualLoop(_, _, _, _, _)
contextualLoop(doc, acc, potentialComponents, n, userInput) ==
    IF n > Len(potentialComponents) THEN acc
    ELSE contextualLoop(doc, contextualStep(doc, acc, potentialComponents[n], userInput), potentialComponents, n + 1, userInput)

\* userInput.toLowerCase().split(/\s+/)
RECURSIVE lowerWords(_)
lowerWords(userInput) == IF userInput = <<>> THEN <<>> ELSE <<toLowerCase(Head(userInput))>> \o lowerWords(Tail(userInput))

\* return { success: changes.length > 0, xml: modifiedXml, changes }
contextualReturn(acc) == [success |-> Len(acc.changes) > 0, xml |-> acc.xml, changes |-> acc.changes]

potentialComponents(userInput) == SelectSeq(lowerWords(userInput), LAMBDA word : Len(word) > 2 /\ word \notin stopWords)

handleContextualChanges(doc, userInput) ==
    contextualReturn(contextualLoop(doc, [xml |-> doc, changes |-> <<>>], potentialComponents(userInput), 1, userInput))

(***************************************************************************)
(* The pattern matcher.  An instruction is its words (runs of \w            *)
(* characters) in order, separated by white space.  A match is the         *)
(* leftmost one, as String.prototype.match gives it; a capture group that  *)
(* did not take part (undefined) is the empty string.                      *)
(***************************************************************************)
Match(g1, g2) == [matched |-> TRUE, g1 |-> g1, g2 |-> g2]

NoMatch == [matched |-> FALSE, g1 |-> <<>>, g2 |-> <<>>]

anyEqualsCI(word, keywords) == \E k \in keywords : equalsCI(word, k)

anyEndsWithCI(word, keywords) == \E k \in keywords : endsWithCI(word, k)

anyStartsWithCI(word, keywords) == \E k \in keywords : startsWithCI(word, k)

\* (?:the\s+)?(\w+) at word j
afterThe(ws, j) == IF j + 1 <= Len(ws) /\ equalsCI(ws[j], Str("the")) THEN ws[j + 1] ELSE ws[j]

\* (?:a\s+|an\s+)?(\w+) at word j
afterArticle(ws, j) == IF j + 1 <= Len(ws) /\ anyEqualsCI(ws[j], {Str("a"), Str("an")}) THEN ws[j + 1] ELSE ws[j]

\* VERB\s+(?:the\s+)?(\w+)...
verbThePattern(ws, verb) ==
    LET at == {i \in 1..(Len(ws) - 1) : endsWithCI(ws[i], verb)} IN
    IF at = {} THEN NoMatch ELSE Match(afterThe(ws, Min(at) + 1), <<>>)

\* take\s+out\s+(?:the\s+)?(\w+)
takeOutPattern(ws) ==
    LET at == {i \in 1..(Len(ws) - 2) : endsWithCI(ws[i], Str("take")) /\ equalsCI(ws[i + 1], Str("out"))} IN
    IF at = {} THEN NoMatch ELSE Match(afterThe(ws, Min(at) + 2), <<>>)

removePatterns(ws) == <<verbThePattern(ws, Str("remove")), verbThePattern(ws, Str("delete")), takeOutPattern(ws), verbThePattern(ws, Str("eliminate"))>>

changeVerbs == {Str("change"), Str("rename"), Str("replace"), Str("convert"), Str("switch"), Str("update"), Str("make"), Str("turn")}

\* (?:change|...)\s+(?:the\s+)?(\w+)(?:\s+(?:to|as|into|with|by))\s+(?:a\s+|an\s+)?(\w+)
changeVerbPattern(ws) ==
    LET link(w) == anyEqualsCI(w, {Str("to"), Str("as"), Str("into"), Str("with"), Str("by")})
        withThe(i) == i + 4 <= Len(ws) /\ equalsCI(ws[i + 1], Str("the")) /\ link(ws[i + 3])
        withoutThe(i) == i + 3 <= Len(ws) /\ link(ws[i + 2])
        at == {i \in 1..Len(ws) : anyEndsWithCI(ws[i], changeVerbs) /\ (withThe(i) \/ withoutThe(i))}
    IN IF at = {} THEN NoMatch
       ELSE IF withThe(Min(at)) THEN Match(ws[Min(at) + 2], afterArticle(ws, Min(at) + 4))
       ELSE Match(ws[Min(at) + 1], afterArticle(ws, Min(at) + 3))

\* (\w+)\s+(?:to|as|into|->)\s+(\w+)
arrowPattern(ws) ==
    LET at == {i \in 1..(Len(ws) - 2) : anyEqualsCI(ws[i + 1], {Str("to"), Str("as"), Str("into")})} IN
    IF at = {} THEN NoMatch ELSE Match(ws[Min(at)], ws[Min(at) + 2])

\* replace\s+(\w+)\s+with\s+(\w+)
replaceWithPattern(ws) ==
    LET at == {i \in 1..(Len(ws) - 3) : endsWithCI(ws[i], Str("replace")) /\ equalsCI(ws[i + 2], Str("with"))} IN
    IF at = {} THEN NoMatch ELSE Match(ws[Min(at) + 1], ws[Min(at) + 3])

changePatterns(ws) == <<changeVerbPattern(ws), arrowPattern(ws), replaceWithPattern(ws)>>

connectionWords == {Str("arrow"), Str("connection"), Str("line"), Str("wire")}

\* VERB\s+(?:the\s+)?(?:arrow|connection|line|wire)(?:\s+between\s+(\w+)\s+and\s+(\w+))?
verbConnectionPattern(ws, verb) ==
    LET withThe(i) == i + 2 <= Len(ws) /\ equalsCI(ws[i + 1], Str("the")) /\ anyStartsWithCI(ws[i + 2], connectionWords)
        withoutThe(i) == i + 1 <= Len(ws) /\ anyStartsWithCI(ws[i + 1], connectionWords)
        at == {i \in 1..Len(ws) : endsWithCI(ws[i], verb) /\ (withThe(i) \/ withoutThe(i))}
        j == IF withThe(Min(at)) THEN Min(at) + 2 ELSE Min(at) + 1
        between == /\ anyEqualsCI(ws[j], connectionWords)
                   /\ j + 4 <= Len(ws)
                   /\ equalsCI(ws[j + 1], Str("between"))
                   /\ equalsCI(ws[j + 3], Str("and"))
    IN IF at = {} THEN NoMatch
       ELSE IF between THEN Match(ws[j + 2], ws[j + 4])
       ELSE Match(<<>>, <<>>)

\* disconnect\s+(\w+)(?:\s+(?:from|and)\s+(\w+))?
disconnectPattern(ws) ==
    LET at == {i \in 1..(Len(ws) - 1) : endsWithCI(ws[i], Str("disconnect"))}
        i == Min(at)
    IN IF at = {} THEN NoMatch
       ELSE IF i + 3 <= Len(ws) /\ anyEqualsCI(ws[i + 2], {Str("from"), Str("and")}) THEN Match(ws[i + 1], ws[i + 3])
       ELSE Match(ws[i + 1], <<>>)

connectionRemovePatterns(ws) == <<verbConnectionPattern(ws, Str("remove")), verbConnectionPattern(ws, Str("delete")), disconnectPattern(ws)>>

\* VERB\s+(?:a\s+|an\s+)?(\w+)...
verbArticlePattern(ws, verb) ==
    LET at == {i \in 1..(Len(ws) - 1) : endsWithCI(ws[i], verb)} IN
    IF at = {} THEN NoMatch ELSE Match(afterArticle(ws, Min(at) + 1), <<>>)

addPatterns(ws) == <<verbArticlePattern(ws, Str("add")), verbArticlePattern(ws, Str("insert")), verbArticlePattern(ws, Str("create"))>>

\* (?:to\s+)?(\d+) at word j: the digits that start the word after an optional "to"
numberAt(ws, j) ==
    IF j + 1 <= Len(ws) /\ equalsCI(ws[j], Str("to")) /\ digitPrefix(ws[j + 1]) # <<>> THEN digitPrefix(ws[j + 1])
    ELSE IF j <= Len(ws) THEN digitPrefix(ws[j])
    ELSE <<>>

\* (?:make|set|change)\s+(\w+)\s+(?:size|width|height)\s+(?:to\s+)?(\d+)
sizePattern(ws) ==
    LET at == {i \in 1..(Len(ws) - 3) :
                  /\ anyEndsWithCI(ws[i], {Str("make"), Str("set"), Str("change")})
                  /\ anyEqualsCI(ws[i + 2], {Str("size"), Str("width"), Str("height")})
                  /\ numberAt(ws, i + 3) # <<>>}
    IN IF at = {} THEN NoMatch ELSE Match(ws[Min(at) + 1], numberAt(ws, Min(at) + 3))

\* resize\s+(\w+)\s+to\s+(\d+)
resizePattern(ws) ==
    LET at == {i \in 1..(Len(ws) - 3) : endsWithCI(ws[i], Str("resize")) /\ equalsCI(ws[i + 2], Str("to")) /\ digitPrefix(ws[i + 3]) # <<>>} IN
    IF at = {} THEN NoMatch ELSE Match(ws[Min(at) + 1], digitPrefix(ws[Min(at) + 3]))

\* (?:make|set)\s+(\w+)\s+(?:color|colour)\s+(?:to\s+)?(\w+)
colorPattern(ws) ==
    LET at == {i \in 1..(Len(ws) - 3) : anyEndsWithCI(ws[i], {Str("make"), Str("set")}) /\ anyEqualsCI(ws[i + 2], {Str("color"), Str("colour")})}
        j == Min(at) + 3
    IN IF at = {} THEN NoMatch
       ELSE IF j + 1 <= Len(ws) /\ equalsCI(ws[j], Str("to")) THEN Match(ws[Min(at) + 1], ws[j + 1])
       ELSE Match(ws[Min(at) + 1], ws[j])

propertyPatterns(ws) == <<sizePattern(ws), resizePattern(ws), colorPattern(ws)>>

(***************************************************************************)
(* The dispatcher.  Each for loop over a pattern list runs the transform   *)
(* for every pattern that matches, in listed order, on the unmodified      *)
(* document, and returns at the first success; an attempt is what one      *)
(* iteration would return.                                                 *)
(***************************************************************************)
Attempt(result, changes) == [success |-> result.success, xml |-> result.xml, changes |-> changes]

NoAttempt(doc) == [success |-> FALSE, xml |-> doc, changes |-> <<>>]

\* variant of orElse: the first attempt is returned whether or not it succeeded
orElseFirst(attempt, rest) == attempt

\* if (result.success) return ...; otherwise the loop goes on
orElse(attempt, rest) == IF attempt.success THEN attempt ELSE rest

\* `Changed ${from} to ${to} (${result.count} instances)`
replaceAttemptOf(result, from, to) == Attempt(result, <<Change("Changed", result.count, toUpperCase(from), toUpperCase(to))>>)

\* changes.push(result.message)
messageAttemptOf(result) == Attempt(result, <<result.message>>)

\* changes.push(...contextualResult.changes)
contextualAttemptOf(result) == Attempt(result, result.changes)

removeAttempt(doc, m) ==
    IF m.matched THEN Attempt(removeComponent(doc, m.g1), <<Change("Removed", 0, toUpperCase(m.g1), <<>>)>>) ELSE NoAttempt(doc)

replaceAttempt(doc, m) ==
    IF m.matched THEN replaceAttemptOf(replaceComponent(doc, m.g1, m.g2), m.g1, m.g2) ELSE NoAttempt(doc)

connectionAttempt(doc, m) ==
    IF m.matched THEN messageAttemptOf(removeConnections(doc, m.g1, m.g2)) ELSE NoAttempt(doc)

addAttempt(doc, m) ==
    IF m.matched THEN Attempt(addComponent(doc, m.g1), <<Change("Added", 0, toUpperCase(m.g1), <<>>)>>) ELSE NoAttempt(doc)

propertyAttempt(doc, m, userInput) ==
    IF m.matched THEN messageAttemptOf(modifyComponentProperty(doc, m.g1, m.g2, userInput)) ELSE NoAttempt(doc)

\* a loop that leaves its category at the first phrasing that matches
RECURSIVE removeLoopFirstMatch(_, _)
removeLoopFirstMatch(doc, matches) ==
    IF matches = <<>> THEN NoAttempt(doc)
    ELSE IF Head(matches).matched THEN removeAttempt(doc, Head(matches))
    ELSE removeLoopFirstMatch(doc, Tail(matches))

RECURSIVE removeLoop(_, _)
removeLoop(doc, matches) ==
    IF matches = <<>> THEN NoAttempt(doc) ELSE orElse(removeAttempt(doc, Head(matches)), removeLoop(doc, Tail(matches)))

RECURSIVE changeLoop(_, _)
changeLoop(doc, matches) ==
    IF matches = <<>> THEN NoAttempt(doc) ELSE orElse(replaceAttempt(doc, Head(matches)), changeLoop(doc, Tail(matches)))

RECURSIVE connectionLoop(_, _)
connectionLoop(doc, matches) ==
    IF matches = <<>> THEN NoAttempt(doc) ELSE orElse(connectionAttempt(doc, Head(matches)), connectionLoop(doc, Tail(matches)))

RECURSIVE addLoop(_, _)
addLoop(doc, matches) ==
    IF matches = <<>> THEN NoAttempt(doc) ELSE orElse(addAttempt(doc, Head(matches)), addLoop(doc, Tail(matches)))

RECURSIVE propertyLoop(_, _, _)
propertyLoop(doc, matches, userInput) ==
    IF matches = <<>> THEN NoAttempt(doc)
    ELSE orElse(propertyAttempt(doc, Head(matches), userInput), propertyLoop(doc, Tail(matches), userInput))

\* return { modifiedXml, changes }
returned(attempt) == [modifiedXml |-> attempt.xml, changes |-> attempt.changes]

\* variant of makeActualXmlChanges: the Add loop runs before the Remove loop
makeActualXmlChangesAddFirst(userInput, doc) ==
    returned(orElse(addLoop(doc, addPatterns(userInput)),
             orElse(removeLoop(doc, removePatterns(userInput)),
             orElse(changeLoop(doc, changePatterns(userInput)),
             orElse(connectionLoop(doc, connectionRemovePatterns(userInput)),
             orElse(propertyLoop(doc, propertyPatterns(userInput), userInput),
             orElse(contextualAttemptOf(handleContextualChanges(doc, userInput)),
                    NoAttempt(doc))))))))

makeActualXmlChanges(userInput, doc) ==
    returned(orElse(removeLoop(doc, removePatterns(userInput)),
             orElse(changeLoop(doc, changePatterns(userInput)),
             orElse(connectionLoop(doc, connectionRemovePatterns(userInput)),
             orElse(addLoop(doc, addPatterns(userInput)),
             orElse(propertyLoop(doc, propertyPatterns(userInput), userInput),
             orElse(contextualAttemptOf(handleContextualChanges(doc, userInput)),
                    NoAttempt(doc))))))))

(***************************************************************************)
(* Inputs: the documents a session starts from and the instructions and    *)
(* arguments tried on them.  Component names are not words of the fixed    *)
(* markup.                                                                 *)
(***************************************************************************)
RECURSIVE Words(_)
Words(literals) == IF literals = <<>> THEN <<>> ELSE <<Str(Head(literals))>> \o Words(Tail(literals))

MaxSteps == 2

MaxCalls == 1

MaxDisconnects == 2

layers == <<Layer(Str("0")), Layer(Str("1"))>>

\* GPU and CPU joined by one edge
GpuCpu == Document(TRUE, TRUE, layers \o <<Vertex(Str("2"), Str("GPU"), Str("#dae8fc"), Str("120"), Str("60")), Vertex(Str("3"), Str("CPU"), Str("#d5e8d4"), Str("120"), Str("60")), Edge(Str("4"), <<>>, Str("2"), Str("3"))>>)

\* two labels contain GPU, each with its own edge; a label in lower case
TwoGpus == Document(TRUE, TRUE, layers \o <<Vertex(Str("2"), Str("GPU"), Str("#dae8fc"), Str("120"), Str("60")), Vertex(Str("3"), Str("gpu cache"), Str("#dae8fc"), Str("80"), Str("40")), Vertex(Str("4"), Str("CPU"), Str("#d5e8d4"), Str("120"), Str("60")), Edge(Str("5"), <<>>, Str("2"), Str("4")), Edge(Str("6"), <<>>, Str("3"), Str("4"))>>)

\* a labelled edge before the vertices, a vertex without fillColor, a label that contains "size"
Labelled == Document(TRUE, TRUE, layers \o <<Edge(Str("5"), Str("CPU bus"), Str("2"), Str("3")), PlainVertex(Str("2"), Str("Synthesizer"), Str("100"), Str("50")), Vertex(Str("3"), Str("CPU"), Str("#ff0000"), Str("120"), Str("60"))>>)

\* the closing mxGraphModel tag is missing
Unclosed == Document(TRUE, FALSE, layers \o <<Vertex(Str("2"), Str("GPU"), Str("#dae8fc"), Str("120"), Str("60")), Vertex(Str("3"), Str("CPU"), Str("#d5e8d4"), Str("120"), Str("60")), Edge(Str("4"), <<>>, Str("2"), Str("3"))>>)

\* no id is numeric
Lettered == Document(TRUE, TRUE, <<Vertex(Str("a"), Str("GPU"), Str("#dae8fc"), Str("120"), Str("60")), Vertex(Str("b"), Str("RAM"), Str("#dae8fc"), Str("120"), Str("60")), Edge(Str("e"), <<>>, Str("a"), Str("b"))>>)

\* a text that is not draw.io markup
NotDrawio == Document(FALSE, FALSE, <<Vertex(Str("2"), Str("GPU"), Str("#dae8fc"), Str("120"), Str("60"))>>)

\* more than ten labels, one of them twice, one that names the markup's own element
Crowded ==
    LET labels == <<"U1", "U2", "U1", "mxCell pool", "U3", "U4", "U5", "U6", "U7", "U8", "U9", "U10", "U11", "U12">> IN
    Document(TRUE, TRUE, layers \o [n \in 1..Len(labels) |-> Vertex(numberToString(n + 1), Str(labels[n]), Str("#dae8fc"), Str("120"), Str("60"))])

Documents == {GpuCpu, TwoGpus, Labelled, Unclosed, Lettered, NotDrawio, EmptyDocument}

Instructions == {
    Words(<<"remove", "GPU", "block">>),
    Words(<<"delete", "the", "cpu">>),
    Words(<<"remove", "GPU", "and", "add", "RAM">>),
    Words(<<"remove", "RAM", "and", "delete", "GPU">>),
    Words(<<"change", "GPU", "to", "CPU">>),
    Words(<<"change", "gpu", "to", "GPU">>),
    Words(<<"change", "2", "to", "3">>),
    Words(<<"rename", "the", "CPU", "as", "a", "dsp">>),
    Words(<<"add", "a", "RAM", "component">>),
    Words(<<"insert", "DSP", "to", "GPU">>),
    Words(<<"remove", "arrows">>),
    Words(<<"remove", "the", "arrow", "between", "2", "and", "3">>),
    Words(<<"disconnect", "CPU">>),
    Words(<<"disconnect", "2", "from", "4">>),
    Words(<<"make", "CPU", "size", "to", "200">>),
    Words(<<"resize", "CPU", "to", "150">>),
    Words(<<"set", "CPU", "color", "to", "RED">>),
    Words(<<"make", "GPU", "color", "teal">>),
    Words(<<"set", "RAM", "color", "to", "blue">>),
    Words(<<"make", "Synthesizer", "color", "blue">>),
    Words(<<"make", "CPU", "bigger">>),
    Words(<<"make", "the", "gpu", "smaller">>),
    Words(<<"hello", "there">>)
}

\* component names: labels, parts of labels, a label in another case, an absent label
Names == {Str("GPU"), Str("gpu"), Str("CPU"), Str("RAM"), Str("cache"), Str("bus")}

\* what a component is renamed to: the name itself in another case, an existing label, a new label
NewNames == {Str("GPU"), Str("cpu"), Str("dsp")}

\* the arguments of removeConnections: identifiers, a label, a word of the markup, an absent capture
ConnectionNames == {Str("2"), Str("3"), Str("4"), Str("bus"), Str("source"), <<>>}

(***************************************************************************)
(* State: the session's document text, and the last call with its result   *)
(***************************************************************************)
Call(op, userInput, a, b, xmlIn, success, xmlOut, count, changes) ==
    [op |-> op, userInput |-> userInput, a |-> a, b |-> b, xmlIn |-> xmlIn,
     success |-> success, xmlOut |-> xmlOut, count |-> count, changes |-> changes]

\* which transform was called and with which names
Summary(call) == [op |-> call.op, a |-> call.a, b |-> call.b, success |-> call.success]

\* useState of ArchitectureChatbot and ChatInterface
NoFiles == [image |-> FALSE, xml |-> <<>>]

greeting == [type |-> "ai", content |-> [template |-> "Greeting", changes |-> <<>>, components |-> <<>>]]

SessionStart ==
    /\ reads = <<>>
    /\ messages = <<greeting>>
    /\ inputValue = <<>>
    /\ isLoading = FALSE
    /\ timers = <<>>
    /\ toast = "none"

\* a session whose files have been read, before its first instruction
Init ==
    /\ xml \in Documents
    /\ last = Call("none", <<>>, <<>>, <<>>, xml, FALSE, xml, 0, <<>>)
    /\ prev = Summary(last)
    /\ steps = 0
    /\ uploadedFiles = [image |-> TRUE, xml |-> IF xml = EmptyDocument THEN <<>> ELSE <<xml>>]
    /\ SessionStart

\* the delayed body of handleSendMessage, as far as the document goes: the
\* instruction is applied to the document text and onXmlUpdate stores the
\* result when the change list is not empty
ApplyInstruction(userInput) ==
    /\ steps < MaxSteps
    /\ xml # EmptyDocument
    /\ xml.opening \/ xml.closing
    /\ \E result \in {makeActualXmlChanges(userInput, xml)} :
       /\ xml' = IF Len(result.changes) > 0 THEN result.modifiedXml ELSE xml
       /\ last' = Call("makeActualXmlChanges", userInput, <<>>, <<>>, xml, Len(result.changes) > 0, result.modifiedXml, 0, result.changes)
    /\ steps' = steps + 1
    /\ prev' = Summary(last)
    /\ UNCHANGED session

\* an empty document text, or one without mxGraphModel: the instruction is not applied
RejectInstruction(userInput) ==
    /\ steps < MaxSteps
    /\ xml = EmptyDocument \/ ~(xml.opening \/ xml.closing)
    /\ last' = Call("rejected", userInput, <<>>, <<>>, xml, FALSE, xml, 0, <<>>)
    /\ steps' = steps + 1
    /\ prev' = Summary(last)
    /\ UNCHANGED <<xml, session>>

Next ==
    \/ \E userInput \in Instructions : ApplyInstruction(userInput)
    \/ \E userInput \in Instructions : RejectInstruction(userInput)

Spec == Init /\ [][Next]_vars

(***************************************************************************)
(* The transforms on their own: each applied to a document with arguments  *)
(* the pattern matcher can capture.                                        *)
(***************************************************************************)
CallRemoveComponent(componentName) ==
    /\ steps < MaxCalls
    /\ \E result \in {removeComponent(xml, componentName)} :
       /\ xml' = result.xml
       /\ last' = Call("removeComponent", <<>>, componentName, <<>>, xml, result.success, result.xml, 0, <<>>)
    /\ steps' = steps + 1
    /\ prev' = Summary(last)
    /\ UNCHANGED session

CallReplaceComponent(fromComponent, toComponent) ==
    /\ steps < MaxCalls
    /\ \E result \in {replaceComponent(xml, fromComponent, toComponent)} :
       /\ xml' = result.xml
       /\ last' = Call("replaceComponent", <<>>, fromComponent, toComponent, xml, result.success, result.xml, result.count, <<>>)
    /\ steps' = steps + 1
    /\ prev' = Summary(last)
    /\ UNCHANGED session

RemoveConnectionsCall(component1, component2, bound) ==
    /\ steps < bound
    /\ \E result \in {removeConnections(xml, component1, component2)} :
       /\ xml' = result.xml
       /\ last' = Call("removeConnections", <<>>, component1, component2, xml, result.success, result.xml, result.message.count, <<result.message>>)
    /\ steps' = steps + 1
    /\ prev' = Summary(last)
    /\ UNCHANGED session

CallRemoveConnections(component1, component2) == RemoveConnectionsCall(component1, component2, MaxCalls)

CallAddComponent(componentName) ==
    /\ steps < MaxCalls
    /\ \E result \in {addComponent(xml, componentName)} :
       /\ xml' = result.xml
       /\ last' = Call("addComponent", <<>>, componentName, <<>>, xml, result.success, result.xml, 0, <<>>)
    /\ steps' = steps + 1
    /\ prev' = Summary(last)
    /\ UNCHANGED session

CallModifyComponentProperty(component, value, userInput) ==
    /\ steps < MaxCalls
    /\ \E result \in {modifyComponentProperty(xml, component, value, userInput)} :
       /\ xml' = result.xml
       /\ last' = Call("modifyComponentProperty", userInput, component, value, xml, result.success, result.xml, 0, <<result.message>>)
    /\ steps' = steps + 1
    /\ prev' = Summary(last)
    /\ UNCHANGED session

CallHandleContextualChanges(userInput) ==
    /\ steps < MaxCalls
    /\ \E result \in {handleContextualChanges(xml, userInput)} :
       /\ xml' = result.xml
       /\ last' = Call("handleContextualChanges", userInput, <<>>, <<>>, xml, result.success, result.xml, 0, result.changes)
    /\ steps' = steps + 1
    /\ prev' = Summary(last)
    /\ UNCHANGED session

\* the calls of modifyComponentProperty the dispatcher makes: the captures of a property pattern
PropertyCalls ==
    {<<propertyPatterns(p[1])[p[2]].g1, propertyPatterns(p[1])[p[2]].g2, p[1]>> :
        p \in {q \in Instructions \X (1..3) : propertyPatterns(q[1])[q[2]].matched}}

TransformNext ==
    \/ \E componentName \in Names : CallRemoveComponent(componentName)
    \/ \E fromComponent \in Names, toComponent \in NewNames : CallReplaceComponent(fromComponent, toComponent)
    \/ \E component1 \in ConnectionNames, component2 \in ConnectionNames : CallRemoveConnections(component1, component2)
    \/ \E componentName \in Names : CallAddComponent(componentName)
    \/ \E call \in PropertyCalls : CallModifyComponentProperty(call[1], call[2], call[3])
    \/ \E userInput \in Instructions : CallHandleContextualChanges(userInput)

TransformSpec == Init /\ [][TransformNext]_vars

(***************************************************************************)
(* removeConnections applied to its own result                             *)
(***************************************************************************)
CallRemoveConnectionsInTurn(component1, component2) == RemoveConnectionsCall(component1, component2, MaxDisconnects)

DisconnectNext ==
    \E component1 \in ConnectionNames, component2 \in ConnectionNames : CallRemoveConnectionsInTurn(component1, component2)

DisconnectSpec == Init /\ [][DisconnectNext]_vars

(***************************************************************************)
(* The replies of the assistant                                            *)
(***************************************************************************)
componentLimit == 10

\* the labels as they come, repeated ones too
withDuplicates(values, seen) == values

\* .filter((value, index, array) => array.indexOf(value) === index)
RECURSIVE withoutDuplicates(_, _)
withoutDuplicates(values, seen) ==
    IF values = <<>> THEN <<>>
    ELSE IF Head(values) \in seen THEN withoutDuplicates(Tail(values), seen)
    ELSE <<Head(values)>> \o withoutDuplicates(Tail(values), seen \cup {Head(values)})

\* the labels value="([^"]+)" finds, without repetitions, the first ten
extractComponentsFromXml(doc) ==
    LET valueMatches == SelectSeq(doc.cells, LAMBDA c : c.value # <<>>)
        kept == SelectSeq(valueMatches, LAMBDA c : ~includes(c.value, Str("<")) /\ ~includes(c.value, Str("mxCell")))
        distinct == withoutDuplicates([n \in 1..Len(kept) |-> kept[n].value], {})
        components == SubSeq(distinct, 1, Min({componentLimit, Len(distinct)}))
    IN IF Len(components) > 0 THEN components ELSE <<Str("No components detected")>>

\* strategy.keywords.some(keyword => lowerInput.includes(keyword))
someKeyword(userInput, keywords) == \E keyword \in keywords : inputIncludes(userInput, Str(keyword))

Response(template, changes, components) == [template |-> template, changes |-> changes, components |-> components]

\* the guidance templates, in the order of responseStrategies, and the default one
guidance(userInput, components) ==
    IF \/ someKeyword(userInput, {"remove", "delete", "eliminate"})
       \/ \E n \in 1..(Len(userInput) - 1) : endsWithCI(userInput[n], Str("take")) /\ startsWithCI(userInput[n + 1], Str("out"))
    THEN Response("ComponentRemoval", <<>>, components)
    ELSE IF someKeyword(userInput, {"add", "insert", "create", "new"})
    THEN Response("AddNewComponents", <<>>, <<>>)
    ELSE IF someKeyword(userInput, {"change", "rename", "replace", "convert", "switch", "update", "make", "turn"})
    THEN Response("ComponentModification", <<>>, components)
    ELSE IF someKeyword(userInput, {"arrow", "connection", "line", "wire", "link", "connect"})
    THEN Response("ConnectionManagement", <<>>, <<>>)
    ELSE IF someKeyword(userInput, {"color", "colour", "size", "resize", "bigger", "smaller", "larger"})
    THEN Response("VisualProperties", <<>>, components)
    ELSE Response("ArchitectureAIAssistant", <<>>, components)

generateAIResponse(userInput, doc, actualChanges) ==
    IF Len(actualChanges) > 0 THEN Response("ArchitectureSuccessfullyUpdated", actualChanges, <<>>)
    ELSE guidance(userInput, extractComponentsFromXml(doc))

(***************************************************************************)
(* The page: the files, the XML editor, the chat and its delayed replies   *)
(***************************************************************************)
MaxEvents == 5

\* the markup files a user drops, by their content
Files == {GpuCpu, NotDrawio}

\* what a user types into the chat: instructions and a text of spaces only
Typed == {Words(<<"remove", "GPU", "block">>), Words(<<"hello", "there">>), Words(<<"  ">>)}

\* what a user saves from the XML editor
Edited == {Crowded}

hasFiles(files) == files.image \/ files.xml # <<>>

\* String.prototype.trim over a text kept as words: the words made of white space only
\* are dropped from both ends
trim(text) ==
    LET solid == {n \in 1..Len(text) : \E i \in 1..Len(text[n]) : text[n][i] # " "}
    IN  IF solid = {} THEN <<>> ELSE SubSeq(text, Min(solid), Max(solid))

\* !inputValue.trim()
blank(text) == trim(text) = <<>>

\* the disabled attribute of the input field, read with an isLoading that is never set
inputDisabledWhileLoadingToo(files, loading) == ~hasFiles(files)

\* the disabled attribute of the input field and of the send button
inputDisabled(files, loading) == ~hasFiles(files) \/ loading

buttonDisabled(files, text, loading) == ~hasFiles(files) \/ blank(text) \/ loading

Message(type, content) == [type |-> type, content |-> content]

\* xmlContent && !xmlContent.includes('mxGraphModel')
notDrawio(doc) == doc # EmptyDocument /\ ~(doc.opening \/ doc.closing)

SessionInit ==
    /\ xml = EmptyDocument
    /\ last = Call("none", <<>>, <<>>, <<>>, xml, FALSE, xml, 0, <<>>)
    /\ prev = Summary(last)
    /\ steps = 0
    /\ uploadedFiles = NoFiles
    /\ SessionStart

\* FileUploader.onDrop for one accepted file, and handleFilesUploaded, which
\* reads the markup file of the new file set, dropped now or earlier
DropFile(kind, content) ==
    /\ steps < MaxEvents
    /\ \E newFiles \in {IF kind = "image" THEN [uploadedFiles EXCEPT !.image = TRUE]
                        ELSE IF kind = "xml" THEN [uploadedFiles EXCEPT !.xml = <<content>>]
                        ELSE uploadedFiles} :
       /\ uploadedFiles' = newFiles
       /\ reads' = IF newFiles.xml # <<>> THEN Append(reads, [file |-> newFiles.xml[1], dropped |-> kind]) ELSE reads
    /\ toast' = IF kind = "image" THEN "Image uploaded" ELSE IF kind = "xml" THEN "XML file uploaded" ELSE "Unsupported file type"
    /\ steps' = steps + 1
    /\ UNCHANGED <<xml, last, prev, messages, inputValue, isLoading, timers>>

\* FileUploader.clearFiles, offered while a file is listed
ClearFiles ==
    /\ steps < MaxEvents
    /\ hasFiles(uploadedFiles)
    /\ uploadedFiles' = NoFiles
    /\ toast' = "Files cleared"
    /\ steps' = steps + 1
    /\ UNCHANGED <<xml, last, prev, reads, messages, inputValue, isLoading, timers>>

without(sequence, n) == SubSeq(sequence, 1, n - 1) \o SubSeq(sequence, n + 1, Len(sequence))

\* reader.onload: the text of the file becomes the document text
ReadLoaded(n) ==
    /\ n \in 1..Len(reads)
    /\ xml' = reads[n].file
    /\ reads' = without(reads, n)
    /\ last' = Call("onload", <<>>, Str(reads[n].dropped), <<>>, xml, TRUE, reads[n].file, 0, <<>>)
    /\ UNCHANGED <<prev, steps, uploadedFiles, messages, inputValue, isLoading, timers, toast>>

\* the read fails: the reader has no onerror handler
ReadFailed(n) ==
    /\ n \in 1..Len(reads)
    /\ reads' = without(reads, n)
    /\ last' = Call("onerror", <<>>, Str(reads[n].dropped), <<>>, xml, FALSE, xml, 0, <<>>)
    /\ UNCHANGED <<prev, xml, steps, uploadedFiles, messages, inputValue, isLoading, timers, toast>>

\* XmlEditor.handleSave
SaveXml(editContent) ==
    /\ steps < MaxEvents
    /\ xml' = editContent
    /\ toast' = "XML updated"
    /\ steps' = steps + 1
    /\ UNCHANGED <<last, prev, uploadedFiles, reads, messages, inputValue, isLoading, timers>>

\* onChange of the input field
TypeInput(text) ==
    /\ steps < MaxEvents
    /\ ~inputDisabled(uploadedFiles, isLoading)
    /\ inputValue' = text
    /\ steps' = steps + 1
    /\ UNCHANGED <<xml, last, prev, uploadedFiles, reads, messages, isLoading, timers, toast>>

\* handleSendMessage up to setTimeout: the callback keeps the inputValue and
\* the xmlContent of the render in which the instruction was sent
\* a handler without its two early returns
handleSendMessageUnchecked ==
    /\ messages' = Append(messages, Message("user", inputValue))
    /\ inputValue' = <<>>
    /\ isLoading' = TRUE
    /\ timers' = Append(timers, [inputValue |-> inputValue, xmlContent |-> xml])
    /\ UNCHANGED toast

\* handleSendMessage: the two early returns, then the user message, the cleared input,
\* the loading flag and the timer that holds the text and the document of this moment
handleSendMessage ==
    IF blank(inputValue)
    THEN UNCHANGED <<messages, inputValue, isLoading, timers, toast>>
    ELSE IF ~hasFiles(uploadedFiles)
    THEN /\ toast' = "Please upload architecture files first"
         /\ UNCHANGED <<messages, inputValue, isLoading, timers>>
    ELSE /\ messages' = Append(messages, Message("user", inputValue))
         /\ inputValue' = <<>>
         /\ isLoading' = TRUE
         /\ timers' = Append(timers, [inputValue |-> inputValue, xmlContent |-> xml])
         /\ UNCHANGED toast

\* a click on the send button
ClickSend ==
    /\ steps < MaxEvents
    /\ ~buttonDisabled(uploadedFiles, inputValue, isLoading)
    /\ handleSendMessage
    /\ steps' = steps + 1
    /\ UNCHANGED <<xml, last, prev, uploadedFiles, reads>>

\* handleKeyPress: Enter in the input field
PressEnter ==
    /\ steps < MaxEvents
    /\ ~inputDisabled(uploadedFiles, isLoading)
    /\ handleSendMessage
    /\ steps' = steps + 1
    /\ UNCHANGED <<xml, last, prev, uploadedFiles, reads>>

\* the callback on a document text without mxGraphModel, had it returned before setIsLoading(false)
refuseAndKeepLoading(timer) ==
    /\ toast' = "The uploaded file doesn't seem to be a valid draw.io diagram"
    /\ last' = Call("handleSendMessage", timer.inputValue, <<>>, <<>>, timer.xmlContent, FALSE, timer.xmlContent, 0, <<>>)
    /\ UNCHANGED <<xml, messages, isLoading>>

\* the callback on a document text without mxGraphModel: a notice, no reply
refuse(timer) ==
    /\ toast' = "The uploaded file doesn't seem to be a valid draw.io diagram"
    /\ isLoading' = FALSE
    /\ last' = Call("handleSendMessage", timer.inputValue, <<>>, <<>>, timer.xmlContent, FALSE, timer.xmlContent, 0, <<>>)
    /\ UNCHANGED <<xml, messages>>

\* a callback that would leave the transcript as it is
withoutReply(transcript, aiResponse) == transcript

\* setMessages([aiResponse]): the reply in place of the transcript
withReplyOnly(transcript, aiResponse) == <<aiResponse>>

\* setMessages(prev => [...prev, aiResponse])
withReply(transcript, aiResponse) == Append(transcript, aiResponse)

\* the rest of the callback: onXmlUpdate when there are changes, then the reply
respond(timer, result) ==
    /\ xml' = IF Len(result.changes) > 0 THEN result.modifiedXml ELSE xml
    /\ toast' = IF Len(result.changes) > 0 THEN "XML Updated" ELSE toast
    /\ messages' = withReply(messages, Message("ai", generateAIResponse(timer.inputValue, timer.xmlContent, result.changes)))
    /\ isLoading' = FALSE
    /\ last' = Call("handleSendMessage", timer.inputValue, <<>>, <<>>, timer.xmlContent, Len(result.changes) > 0, result.modifiedXml, 0, result.changes)

\* the setTimeout callback of the oldest instruction that waits
Deliver ==
    /\ timers # <<>>
    /\ timers' = Tail(timers)
    /\ UNCHANGED prev
    /\ \E timer \in {Head(timers)} :
       IF timer.xmlContent = EmptyDocument
       THEN respond(timer, [modifiedXml |-> timer.xmlContent, changes |-> <<>>])
       ELSE IF notDrawio(timer.xmlContent)
       THEN refuse(timer)
       ELSE \E result \in {makeActualXmlChanges(timer.inputValue, timer.xmlContent)} : respond(timer, result)
    /\ UNCHANGED <<steps, uploadedFiles, reads, inputValue>>

SessionNext ==
    \/ \E kind \in {"image", "xml", "other"}, content \in Files : DropFile(kind, content)
    \/ ClearFiles
    \/ \E n \in 1..MaxEvents : ReadLoaded(n)
    \/ \E n \in 1..MaxEvents : ReadFailed(n)
    \/ \E editContent \in Edited : SaveXml(editContent)
    \/ \E text \in Typed : TypeInput(text)
    \/ ClickSend
    \/ PressEnter
    \/ Deliver

SessionSpec == SessionInit /\ [][SessionNext]_vars

\* the step Deliver takes, as far as the timers go
TimerRuns == timers # <<>> /\ timers' = Tail(timers)

\* a timer that was set runs: nothing cancels it
LiveSessionSpec == SessionSpec /\ WF_timers(TimerRuns)

\* handleSendMessage called whatever the controls show: only its own checks guard it
CallHandleSendMessage ==
    /\ steps < MaxEvents
    /\ handleSendMessage
    /\ steps' = steps + 1
    /\ UNCHANGED <<xml, last, prev, uploadedFiles, reads>>

HandlerNext ==
    \/ SessionNext
    \/ CallHandleSendMessage

HandlerSpec == SessionInit /\ [][HandlerNext]_vars

(***************************************************************************)
(* Properties.  They are stated over the last call: its arguments, the     *)
(* document it was given and what it returned.                             *)
(***************************************************************************)
Nodes(doc) == SelectSeq(doc.cells, LAMBDA c : c.kind = "vertex")

Edges(doc) == SelectSeq(doc.cells, LAMBDA c : c.kind = "edge")

Ids(cells) == {cells[n].id : n \in 1..Len(cells)}

Dispatched == last.op = "makeActualXmlChanges"

\* what each intent category would return for the instruction, in priority order
Categories(userInput, doc) ==
    <<removeLoop(doc, removePatterns(userInput)),
      changeLoop(doc, changePatterns(userInput)),
      connectionLoop(doc, connectionRemovePatterns(userInput)),
      addLoop(doc, addPatterns(userInput)),
      propertyLoop(doc, propertyPatterns(userInput), userInput),
      contextualAttemptOf(handleContextualChanges(doc, userInput))>>

Matched(matches) == SelectSeq(matches, LAMBDA m : m.matched)

\* C1: the categories are tried in the order Remove, Replace/Rename,
\* DisconnectEdges, Add, ModifyProperty, ContextualBulkResize, and what
\* makeActualXmlChanges returns is the result of the first category whose
\* transform succeeds, whatever later categories would have done
C1_FirstSuccessfulCategoryIsReturned ==
    Dispatched =>
        LET categories == Categories(last.userInput, last.xmlIn) IN
        \A n \in 1..Len(categories) :
            (categories[n].success /\ \A m \in 1..(n - 1) : ~categories[m].success)
                => last.xmlOut = categories[n].xml /\ last.changes = categories[n].changes

\* Remove succeeded on an instruction that an Add pattern matches too, and the Add was not applied
C1_Witness ==
    /\ Dispatched
    /\ Categories(last.userInput, last.xmlIn)[1].success
    /\ Categories(last.userInput, last.xmlIn)[4].success
    /\ last.xmlOut = Categories(last.userInput, last.xmlIn)[1].xml
    /\ Len(Nodes(last.xmlOut)) < Len(Nodes(last.xmlIn))

\* C2: a failed transform lets the next category run; when every category
\* fails the input document comes back unchanged with an empty change list;
\* an empty change list always comes with the input document
C2_FailureFallsThrough ==
    Dispatched =>
        LET categories == Categories(last.userInput, last.xmlIn) IN
        /\ (\A n \in 1..Len(categories) : ~categories[n].success) => last.xmlOut = last.xmlIn /\ last.changes = <<>>
        /\ (\E n \in 1..Len(categories) : categories[n].success)
               => \E n \in 1..Len(categories) : categories[n].success /\ last.changes = categories[n].changes /\ last.changes # <<>>
        /\ last.changes = <<>> => last.xmlOut = last.xmlIn

\* a Remove pattern matched, removeComponent failed, and DisconnectEdges was applied
C2_Witness ==
    /\ Dispatched
    /\ Matched(removePatterns(last.userInput)) # <<>>
    /\ ~Categories(last.userInput, last.xmlIn)[1].success
    /\ Categories(last.userInput, last.xmlIn)[3].success
    /\ last.changes = Categories(last.userInput, last.xmlIn)[3].changes
    /\ Edges(last.xmlOut) = <<>>

\* C3: after an instruction that matches a Remove pattern with a name that is
\* part of a node label, no node label contains the name and no edge has a
\* removed node as its source or target
C3_RemoveLeavesNoNodeAndNoEdge ==
    (/\ Dispatched
     /\ Matched(removePatterns(last.userInput)) # <<>>
     /\ \E n \in 1..Len(Nodes(last.xmlIn)) : includes(Nodes(last.xmlIn)[n].value, Head(Matched(removePatterns(last.userInput))).g1))
    => LET name == Head(Matched(removePatterns(last.userInput))).g1
           removed == Ids(Nodes(last.xmlIn)) \ Ids(Nodes(last.xmlOut))
       IN /\ \A n \in 1..Len(Nodes(last.xmlOut)) : ~includes(Nodes(last.xmlOut)[n].value, name)
          /\ \A n \in 1..Len(Edges(last.xmlOut)) :
                 Edges(last.xmlOut)[n].source \notin removed /\ Edges(last.xmlOut)[n].target \notin removed

Replaced == last.op = "replaceComponent"

\* the whole-word occurrences of a word in the attribute values, ignoring case
Occurrences(doc, word) == countInCells(doc.cells, word)

\* the whole-word occurrences of a word in the attribute values, in exactly this case
ExactIn(s, word) == Cardinality({i \in 1..Len(s) : IsWordAt(s, i, word) /\ SubSeq(s, i, i + Len(word) - 1) = word})

RECURSIVE ExactInFields(_, _)
ExactInFields(fields, word) == IF fields = <<>> THEN 0 ELSE ExactIn(Head(fields), word) + ExactInFields(Tail(fields), word)

RECURSIVE ExactInCells(_, _)
ExactInCells(cells, word) == IF cells = <<>> THEN 0 ELSE ExactInFields(CellFields(Head(cells)), word) + ExactInCells(Tail(cells), word)

\* what C4 says of the count, of the replacement text and of the case of no occurrence
ReplaceCounts ==
    /\ Occurrences(last.xmlIn, last.a) >= 1 =>
           /\ last.success
           /\ last.count = Occurrences(last.xmlIn, last.a)
           /\ ExactInCells(last.xmlOut.cells, toUpperCase(last.b))
                  = last.count + (IF equalsCI(last.a, last.b) THEN 0 ELSE ExactInCells(last.xmlIn.cells, toUpperCase(last.b)))
    /\ Occurrences(last.xmlIn, last.a) = 0 => ~last.success /\ last.count = 0 /\ last.xmlOut = last.xmlIn

\* C4 as written: a Replace(from, to) on a document with n >= 1 whole-word
\* occurrences of from reports n, writes to upper-cased at each of them, and
\* leaves no whole-word occurrence of from; with n = 0 it fails and changes nothing
C4_ReplaceLeavesNoOccurrence ==
    Replaced => ReplaceCounts /\ (Occurrences(last.xmlIn, last.a) >= 1 => Occurrences(last.xmlOut, last.a) = 0)

\* C4: a Replace(from, to) on a document with n >= 1 whole-word occurrences of
\* from reports n and writes to upper-cased at each of them; no whole-word
\* occurrence of from is left when to differs from from ignoring case, and all
\* n are left (upper-cased) when to is from ignoring case; with n = 0 it fails
\* and changes nothing
C4_ReplaceLeavesNoOccurrenceUnlessSameWord ==
    Replaced =>
        /\ ReplaceCounts
        /\ (Occurrences(last.xmlIn, last.a) >= 1 /\ ~equalsCI(last.a, last.b)) => Occurrences(last.xmlOut, last.a) = 0
        /\ (Occurrences(last.xmlIn, last.a) >= 1 /\ equalsCI(last.a, last.b)) => Occurrences(last.xmlOut, last.a) = last.count

\* a word that occurs twice was replaced by another word
C4_Witness ==
    /\ Replaced
    /\ last.success
    /\ last.count >= 2
    /\ ~equalsCI(last.a, last.b)
    /\ Occurrences(last.xmlOut, last.a) = 0
    /\ last.xmlOut # last.xmlIn

Added == last.op = "addComponent"

NumericIds(doc) == {parseInt(doc.cells[n].id) : n \in {n \in 1..Len(doc.cells) : IsDigits(doc.cells[n].id)}}

\* the maximum numeric identifier of a document; none counts as 0
MaxId(doc) == IF NumericIds(doc) = {} THEN 0 ELSE Max(NumericIds(doc))

\* C5: on a document with a closing root tag, Add(name) appends exactly one
\* node, labelled name upper-cased, whose identifier is the maximum numeric
\* identifier plus 1; the maximum grows by 1 and the other elements are as before
C5_AddAppendsNodeWithNextId ==
    (Added /\ last.xmlIn.closing) =>
        /\ Len(last.xmlOut.cells) = Len(last.xmlIn.cells) + 1
        /\ SubSeq(last.xmlOut.cells, 1, Len(last.xmlIn.cells)) = last.xmlIn.cells
        /\ last.xmlOut.cells[Len(last.xmlOut.cells)].kind = "vertex"
        /\ last.xmlOut.cells[Len(last.xmlOut.cells)].value = toUpperCase(last.a)
        /\ IsDigits(last.xmlOut.cells[Len(last.xmlOut.cells)].id)
        /\ parseInt(last.xmlOut.cells[Len(last.xmlOut.cells)].id) = MaxId(last.xmlIn) + 1
        /\ MaxId(last.xmlOut) = MaxId(last.xmlIn) + 1

\* the instruction words that ContextualBulkResize takes for components of the document
ContextualHits(userInput, doc) ==
    {potentialComponents(userInput)[n] : n \in {k \in 1..Len(potentialComponents(userInput)) : documentIncludesCI(doc, potentialComponents(userInput)[k])}}

\* the size ContextualBulkResize is to write for the instruction
ContextualSize(userInput) == IF inputIncludes(userInput, Str("smaller")) THEN SmallerSize ELSE BiggerSize

\* C6: for an instruction that no higher-priority category handles and that
\* contains "bigger" or "larger" (or "smaller"), every node matching a word
\* of the instruction that is longer than 2 characters, no stop word and part
\* of the document has width and height 150 (or 80) afterwards, and the
\* change list is not empty when there is such a word
C6_ContextualResizeApplies ==
    (/\ Dispatched
     /\ \A n \in 1..5 : ~Categories(last.userInput, last.xmlIn)[n].success
     /\ \/ inputIncludes(last.userInput, Str("bigger"))
        \/ inputIncludes(last.userInput, Str("larger"))
        \/ inputIncludes(last.userInput, Str("smaller")))
    => /\ ContextualHits(last.userInput, last.xmlIn) # {} => last.changes # <<>>
       /\ \A word \in ContextualHits(last.userInput, last.xmlIn) :
              \A n \in 1..Len(Nodes(last.xmlOut)) :
                  labelMatches(Nodes(last.xmlOut)[n], word) =>
                      /\ Nodes(last.xmlOut)[n].w = ContextualSize(last.userInput)
                      /\ Nodes(last.xmlOut)[n].h = ContextualSize(last.userInput)

\* C7: modifyComponentProperty fails when the component matches no node of the
\* document: success is false and the document is returned as it was
C7_ModifyFailsWithoutNode ==
    (/\ last.op = "modifyComponentProperty"
     /\ \A n \in 1..Len(last.xmlIn.cells) : ~labelMatches(last.xmlIn.cells[n], last.a))
    => ~last.success /\ last.xmlOut = last.xmlIn

\* C8: a non-empty change list comes with a document that differs from the input
C8_ChangesMeanADifferentDocument ==
    (Dispatched /\ last.changes # <<>>) => last.xmlOut # last.xmlIn

Disconnected == last.op = "removeConnections"

\* the edges removeConnections is to delete: with both names those whose text
\* contains both, otherwise all
Doomed(c, component1, component2) ==
    /\ c.kind = "edge"
    /\ (component1 # <<>> /\ component2 # <<>>) => cellIncludes(c, component1) /\ cellIncludes(c, component2)

\* C9: with both names removeConnections deletes exactly the edges whose text
\* contains both and keeps the others; with one name or none it deletes every
\* edge; it reports the number deleted, fails with the document unchanged
\* when that is zero, and leaves every node as it was
C9_DisconnectDeletesExactlyTheEdges ==
    Disconnected =>
        LET doomed == {n \in 1..Len(last.xmlIn.cells) : Doomed(last.xmlIn.cells[n], last.a, last.b)} IN
        /\ last.xmlOut.cells = SelectSeq(last.xmlIn.cells, LAMBDA c : ~Doomed(c, last.a, last.b))
        /\ last.count = Cardinality(doomed)
        /\ last.success <=> doomed # {}
        /\ doomed = {} => last.xmlOut = last.xmlIn
        /\ Nodes(last.xmlOut) = Nodes(last.xmlIn)
        /\ last.xmlOut.opening = last.xmlIn.opening /\ last.xmlOut.closing = last.xmlIn.closing

\* with both names, one edge was deleted and another edge was kept
C9_Witness ==
    /\ Disconnected
    /\ last.a # <<>> /\ last.b # <<>>
    /\ last.success
    /\ last.count = 1
    /\ Len(Edges(last.xmlOut)) = 1
    /\ Len(Edges(last.xmlIn)) = 2

\* the hex code of a colour word of the table, and any other word as it is
FixedColor(word) == IF toLowerCase(word) \in DOMAIN colorMap THEN colorMap[toLowerCase(word)] ELSE word

\* C10: for an instruction that reaches ModifyProperty through the colour
\* pattern, the fill colour of each matching node becomes the fixed hex code of
\* a colour word of the table and the word itself otherwise, and no width or
\* height changes
C10_ColorInstructionRewritesFillOnly ==
    (/\ Dispatched
     /\ \A n \in 1..4 : ~Categories(last.userInput, last.xmlIn)[n].success
     /\ ~sizePattern(last.userInput).matched
     /\ ~resizePattern(last.userInput).matched
     /\ colorPattern(last.userInput).matched)
    => /\ Len(last.xmlOut.cells) = Len(last.xmlIn.cells)
       /\ \A n \in 1..Len(last.xmlIn.cells) :
              /\ (labelMatches(last.xmlIn.cells[n], colorPattern(last.userInput).g1) /\ last.xmlIn.cells[n].hasFill)
                     => last.xmlOut.cells[n].fill = FixedColor(colorPattern(last.userInput).g2)
              /\ last.xmlOut.cells[n].w = last.xmlIn.cells[n].w
              /\ last.xmlOut.cells[n].h = last.xmlIn.cells[n].h

\* the instruction reached the Add category: it matches an Add phrasing and
\* no category of higher priority succeeded on the document
ReachedAdd ==
    /\ Dispatched
    /\ Matched(addPatterns(last.userInput)) # <<>>
    /\ \A n \in 1..3 : ~Categories(last.userInput, last.xmlIn)[n].success

\* C11: on a document without the closing root tag, an instruction that
\* reaches the Add category leaves the document text unchanged and yields
\* an empty change list
C11_AddWithoutClosingTagChangesNothing ==
    (ReachedAdd /\ ~last.xmlIn.closing) =>
        /\ last.xmlOut = last.xmlIn
        /\ xml = last.xmlIn
        /\ last.changes = <<>>

\* modifyComponentProperty took its size branch
Resized ==
    /\ last.op = "modifyComponentProperty"
    /\ \/ inputIncludes(last.userInput, Str("size"))
       \/ inputIncludes(last.userInput, Str("width"))
       \/ inputIncludes(last.userInput, Str("height"))

\* C12: a size instruction sets the width and the height of every node whose
\* label contains the component name to the given value and changes nothing
\* else: the other elements, and the other attributes of the resized nodes,
\* are as they were
C12_SizeInstructionResizesNamedNodesOnly ==
    Resized =>
        /\ last.xmlOut.opening = last.xmlIn.opening
        /\ last.xmlOut.closing = last.xmlIn.closing
        /\ Len(last.xmlOut.cells) = Len(last.xmlIn.cells)
        /\ \A n \in 1..Len(last.xmlIn.cells) :
              IF last.xmlIn.cells[n].kind = "vertex" /\ includes(last.xmlIn.cells[n].value, last.a)
              THEN last.xmlOut.cells[n] = [last.xmlIn.cells[n] EXCEPT !.w = last.b, !.h = last.b]
              ELSE includesCI(last.xmlIn.cells[n].value, last.a) \/ last.xmlOut.cells[n] = last.xmlIn.cells[n]

Removed == last.op = "removeComponent"

\* the labelled elements of a document: nodes and edges, not the layer cells
LabelledCells(doc) == SelectSeq(doc.cells, LAMBDA c : c.kind # "layer")

PhrasingMatches(userInput) ==
    <<removePatterns(userInput), changePatterns(userInput), connectionRemovePatterns(userInput),
      addPatterns(userInput), propertyPatterns(userInput)>>

PhrasingAttempts(userInput, doc) ==
    <<[n \in DOMAIN removePatterns(userInput) |-> removeAttempt(doc, removePatterns(userInput)[n])],
      [n \in DOMAIN changePatterns(userInput) |-> replaceAttempt(doc, changePatterns(userInput)[n])],
      [n \in DOMAIN connectionRemovePatterns(userInput) |-> connectionAttempt(doc, connectionRemovePatterns(userInput)[n])],
      [n \in DOMAIN addPatterns(userInput) |-> addAttempt(doc, addPatterns(userInput)[n])],
      [n \in DOMAIN propertyPatterns(userInput) |-> propertyAttempt(doc, propertyPatterns(userInput)[n], userInput)]>>

\* the category decided by its first phrasing that matches
ByFirstMatch(matches, attempts, doc) ==
    LET at == {n \in DOMAIN matches : matches[n].matched} IN
    IF at = {} THEN NoAttempt(doc) ELSE attempts[Min(at)]

\* the category decided by its first phrasing that matches and whose transform succeeds
ByFirstSuccess(matches, attempts, doc) ==
    LET at == {n \in DOMAIN matches : matches[n].matched /\ attempts[n].success} IN
    IF at = {} THEN NoAttempt(doc) ELSE attempts[Min(at)]

\* the first successful one of the six category results
FirstOf(decided, contextual, doc) ==
    LET at == {k \in DOMAIN decided : decided[k].success} IN
    returned(IF at # {} THEN decided[Min(at)] ELSE IF contextual.success THEN contextual ELSE NoAttempt(doc))

Returned == [modifiedXml |-> last.xmlOut, changes |-> last.changes]

DisconnectedAll(call) == call.op = "removeConnections" /\ call.a = <<>> /\ call.b = <<>>

\* C15: removeConnections without names is idempotent: the first call removes
\* every edge and nothing else, and a second call right after it removes
\* nothing, returns the document it was given and reports failure, zero removed
C15_DisconnectAllTwiceIsDisconnectAllOnce ==
    DisconnectedAll(last) =>
        /\ last.xmlOut.cells = SelectSeq(last.xmlIn.cells, LAMBDA c : c.kind # "edge")
        /\ xml = last.xmlOut
        /\ DisconnectedAll(prev) =>
              /\ Edges(last.xmlIn) = <<>>
              /\ last.xmlOut = last.xmlIn
              /\ ~last.success
              /\ last.count = 0

\* the second of two calls without names, the first of which removed edges
C15_Witness ==
    /\ DisconnectedAll(last) /\ DisconnectedAll(prev)
    /\ prev.success
    /\ ~last.success
    /\ Nodes(xml) # <<>>

\* C16: Add on a document with its closing tag gives the inserted node a
\* positive decimal identifier, and the identifier 1 when no identifier of
\* the document is numeric
C16_AddGivesAPositiveDecimalId ==
    (Added /\ last.xmlIn.closing) =>
        /\ Len(last.xmlOut.cells) = Len(last.xmlIn.cells) + 1
        /\ LET inserted == last.xmlOut.cells[Len(last.xmlOut.cells)] IN
           /\ IsDigits(inserted.id)
           /\ parseInt(inserted.id) >= 1
           /\ NumericIds(last.xmlIn) = {} => inserted.id = Str("1")

\* C17: the identifiers of the elements of the document are pairwise
\* distinct after every sequence of instructions, as they are before it
C17_IdentifiersStayDistinct ==
    \A i \in 1..Len(xml.cells), j \in 1..Len(xml.cells) : i # j => xml.cells[i].id # xml.cells[j].id

\* an instruction waits for its delayed processing
Waiting == timers # <<>>

guidanceTemplates == {"ComponentRemoval", "AddNewComponents", "ComponentModification", "ConnectionManagement", "VisualProperties", "ArchitectureAIAssistant"}

\* the transcript ends with the instruction processed last and one reply to
\* it: the change summary when there are changes, a guidance template otherwise
Replied ==
    /\ last.op = "handleSendMessage"
    /\ Len(messages) >= 2
    /\ messages[Len(messages) - 1] = Message("user", last.userInput)
    /\ messages[Len(messages)].type = "ai"
    /\ IF last.changes # <<>>
       THEN messages[Len(messages)].content.template = "ArchitectureSuccessfullyUpdated" /\ messages[Len(messages)].content.changes = last.changes
       ELSE messages[Len(messages)].content.template \in guidanceTemplates

\* the transcript ends with the instruction processed last, unanswered, and the notice is up
Refused ==
    /\ last.op = "handleSendMessage"
    /\ messages[Len(messages)] = Message("user", last.userInput)
    /\ toast = "The uploaded file doesn't seem to be a valid draw.io diagram"

C19_LoadingEnds == isLoading ~> ~isLoading

\* the loading flag is down again after an instruction sent with a document
\* text that is no draw.io diagram
C19_Witness ==
    /\ ~isLoading
    /\ last.op = "handleSendMessage"
    /\ notDrawio(last.xmlIn)
    /\ Len(messages) = 2 /\ messages[2].type = "user"

\* C20: at most one instruction is in flight: while the loading flag is up
\* exactly one callback waits and no instruction is accepted, so that no two
\* callbacks wait together
C20_OneInstructionInFlight ==
    /\ Len(timers) <= 1
    /\ isLoading <=> timers # <<>>
    /\ isLoading => messages[Len(messages)].type = "user"

\* a second instruction waits, sent after the first one was answered
C20_Witness ==
    /\ Len(timers) = 1 /\ isLoading
    /\ Len(messages) = 4
    /\ messages[3].type = "ai"

\* a read that a drop began has ended with onload
Loaded == last.op = "onload"

\* C21: a drop that holds no markup file, an image or a file of an
\* unsupported type, never changes the document text: the text is the same
\* after everything the drop set going as it was before
C21_DropWithoutMarkupKeepsTheDocument ==
    (Loaded /\ last.a # Str("xml") /\ last.xmlIn # EmptyDocument) => last.xmlOut = last.xmlIn

\* C22: when the read of an uploaded markup file fails, the document text
\* is empty afterwards, whatever it was before
C22_FailedReadLeavesTheDocumentEmpty ==
    (last.op = "onerror" /\ last.a = Str("xml")) => last.xmlOut = EmptyDocument

\* C23: the transcript is an append-only log: every step leaves the messages
\* there were in place and unchanged, only adding after them, and a reply is
\* added only after the user message with the instruction it answers
C23_TranscriptIsAppendOnly ==
    [][/\ Len(messages') >= Len(messages)
       /\ SubSeq(messages', 1, Len(messages)) = messages
       /\ (Len(messages') > Len(messages) /\ messages'[Len(messages')].type = "ai") =>
             \E n \in 1..Len(messages) : messages[n] = Message("user", last'.userInput)]_vars

\* two instructions were sent and answered, one after the other
C23_Witness ==
    /\ Len(messages) = 5
    /\ messages[2].type = "user" /\ messages[3].type = "ai"
    /\ messages[4].type = "user" /\ messages[5].type = "ai"
    /\ messages[5].content = generateAIResponse(last.userInput, last.xmlIn, last.changes)

\* the labels of a document in document order
LabelsOf(doc) ==
    LET labelled == SelectSeq(doc.cells, LAMBDA c : c.value # <<>>) IN [n \in 1..Len(labelled) |-> labelled[n].value]

\* the first limit distinct ones of the values, in their order
FirstDistinct(values, limit) ==
    LET first == SelectSeq([n \in 1..Len(values) |-> n], LAMBDA n : \A m \in 1..(n - 1) : values[m] # values[n])
    IN [k \in 1..Min({limit, Len(first)}) |-> values[first[k]]]

\* a guidance reply that lists the components of the document
ListedComponents ==
    /\ last.op = "handleSendMessage"
    /\ messages[Len(messages)].type = "ai"
    /\ messages[Len(messages)].content.template \in {"ComponentRemoval", "ComponentModification", "VisualProperties", "ArchitectureAIAssistant"}

\* C24 as stated: the component list of a guidance reply holds the first at
\* most ten distinct labels of the document in document order, or the one
\* placeholder when the document has no label; making it changes no document
C24_ComponentListIsTheFirstTenLabels ==
    ListedComponents =>
        /\ messages[Len(messages)].content.components =
              IF LabelsOf(last.xmlIn) = <<>> THEN <<Str("No components detected")>> ELSE FirstDistinct(LabelsOf(last.xmlIn), 10)
        /\ last.xmlOut = last.xmlIn

\* C24 amended: the list holds between 1 and 10 entries without duplicates:
\* the first at most ten distinct labels, in document order, among the labels
\* that contain neither < nor mxCell, or the one placeholder when no such
\* label is there; making it changes no document
C24_ComponentListIsTheFirstTenPlainLabels ==
    ListedComponents =>
        LET components == messages[Len(messages)].content.components
            plain == SelectSeq(LabelsOf(last.xmlIn), LAMBDA value : ~includes(value, Str("<")) /\ ~includes(value, Str("mxCell")))
        IN /\ Len(components) \in 1..10
           /\ \A n \in 1..Len(components), m \in 1..Len(components) : n # m => components[n] # components[m]
           /\ components = IF plain = <<>> THEN <<Str("No components detected")>> ELSE FirstDistinct(plain, 10)
           /\ last.xmlOut = last.xmlIn

\* a reply lists ten components of a document that has more, one of them twice
C24_Witness ==
    /\ ListedComponents
    /\ last.xmlIn = Crowded
    /\ Len(messages[Len(messages)].content.components) = 10

\* C25: the callback of an instruction applies the transform to the document
\* text of the moment it runs, so that a text stored since the instruction
\* was sent, by the XML editor or by a file read, is not overwritten by a
\* result made from the older text
C25_TransformAppliesToTheCurrentDocument ==
    [][(timers # <<>> /\ timers' = Tail(timers) /\ Head(timers).xmlContent # xml) => xml' = xml]_vars

\* the instruction is "resize X to N" with N a decimal number, and a node of
\* the document is labelled X
ResizeCommand ==
    /\ Dispatched
    /\ Len(last.userInput) = 4
    /\ equalsCI(last.userInput[1], Str("resize"))
    /\ equalsCI(last.userInput[3], Str("to"))
    /\ IsDigits(last.userInput[4])
    /\ \E n \in 1..Len(Nodes(last.xmlIn)) : Nodes(last.xmlIn)[n].value = last.userInput[2]

\* C26: "resize X to N" on a document with a node labelled X sets the width
\* and the height of that node to N and leaves every label and identifier
\* as it was
C26_ResizeCommandResizes ==
    ResizeCommand =>
        /\ xml = last.xmlOut
        /\ Len(last.xmlOut.cells) = Len(last.xmlIn.cells)
        /\ \A n \in 1..Len(last.xmlIn.cells) :
              /\ last.xmlOut.cells[n].id = last.xmlIn.cells[n].id
              /\ last.xmlOut.cells[n].value = last.xmlIn.cells[n].value
              /\ (last.xmlIn.cells[n].kind = "vertex" /\ last.xmlIn.cells[n].value = last.userInput[2]) =>
                    last.xmlOut.cells[n].w = last.userInput[4] /\ last.xmlOut.cells[n].h = last.userInput[4]

\* every edge of the document starts and ends at a node of the document
EdgesReferenceNodes(doc) ==
    \A n \in 1..Len(Edges(doc)) : Edges(doc)[n].source \in Ids(Nodes(doc)) /\ Edges(doc)[n].target \in Ids(Nodes(doc))

\* C27: a successful Remove on a document whose edges all reference nodes
\* of the document returns a document whose edges all reference its nodes
C27_RemoveKeepsEdgesAttached ==
    (Removed /\ last.success /\ EdgesReferenceNodes(last.xmlIn)) => EdgesReferenceNodes(last.xmlOut)

\* a call of handleSendMessage, through a control or not
Submission == ClickSend \/ PressEnter \/ CallHandleSendMessage

\* C28: while the input is blank or no file is uploaded, no step appends a user message,
\* raises the loading flag or sets a timer, and a submission leaves the transcript, the
\* loading flag, the timers and the document text as they are
C28_BlankOrFilelessSubmissionIsRejected ==
    [][(blank(inputValue) \/ ~hasFiles(uploadedFiles)) =>
          /\ Len(timers') <= Len(timers)
          /\ isLoading' => isLoading
          /\ Len(messages') > Len(messages) => messages'[Len(messages')].type = "ai"
          /\ Submission => UNCHANGED <<xml, messages, isLoading, timers>>]_vars

\* a text was submitted after the files were cleared, and only the notice shows it
C28_Witness ==
    /\ toast = "Please upload architecture files first"
    /\ ~blank(inputValue)
    /\ ~hasFiles(uploadedFiles)
    /\ messages = <<greeting>>
    /\ ~isLoading
    /\ timers = <<>>

====
